---- MODULE Spec2Model ----
(***************************************************************************)
(* Model of the bootloader update path of libraries/AP_HAL_ChibiOS/Util.cpp *)
(* (Util::flash_bootloader and the persistent-parameter helpers).  Flash is *)
(* a byte array addressed from the base of page 0; every call the function  *)
(* makes on the flash device, the scheduler and the ROMFS image store is    *)
(* appended to the call log of the current invocation.                      *)
(***************************************************************************)
EXTENDS Integers, Sequences, FiniteSets, TLC

\* ------------------------------------------------------------------ bounds
MaxPages == 2       \* pages in the flash page table
MaxParams == 3      \* persistable parameters in the configuration
MaxVersion == 2     \* distinct contents of the candidate image
MaxCalls == 2       \* invocations of flash_bootloader() in one behaviour

\* -------------------------------------------------------- program constants
AlignSize == 32             \* fw_size = (fw_size + 31U) & ~31U, length % 32
max_attempts == 10
EXPECT_TOTAL_MS == 11000    \* EXPECT_DELAY_MS(11000)
ERASE_DELAY_MS == 1000      \* expect_delay_ms(1000) before erase and write
RETRY_DELAY_MS == 100       \* hal.scheduler->delay(100)
FLASH_BASE == 134217728     \* hal.flash->getpageaddr(0), 0x08000000
ERASED == 255               \* value of an erased flash byte
NUL == 0

\* "{{PERSISTENT_START_V1}}\n" as character codes
persistent_header ==
    <<123, 123, 80, 69, 82, 83, 73, 83, 84, 69, 78, 84, 95,
      83, 84, 65, 82, 84, 95, 86, 49, 125, 125, 10>>

\* ------------------------------------------------------------- byte helpers
Fill(n, b) == [i \in 1..n |-> b]

\* A 32-bit word is held as its two's-complement value in -2^31 .. 2^31-1: the
\* uint32_t 2^32 - k is the word -k.  Sums and differences of the words met
\* here stay inside that range, so + and - are those of the machine; what
\* differs between int32_t and uint32_t is the order.
\* a >= b with both operands converted to uint32_t
uint32_ge(a, b) == IF (a < 0) = (b < 0) THEN a >= b ELSE a < 0

\* (n + 31U) & ~31U
AlignUp(n) == ((n + (AlignSize - 1)) \div AlignSize) * AlignSize

\* the C string held in a buffer: the bytes before the first NUL
CStr(s) ==
    LET nuls == {i \in 1..Len(s) : s[i] = NUL}
    IN  IF nuls = {} THEN s
        ELSE SubSeq(s, 1, (CHOOSE i \in nuls : \A j \in nuls : i <= j) - 1)

strlen(s) == Len(CStr(s))

\* mutant: the sense of the comparison is inverted
strcmp_inverted(a, b) == CStr(a) = CStr(b)

\* strcmp(a, b) != 0
strcmp_differs(a, b) == CStr(a) # CStr(b)

\* mutant: the comparison stops one byte short
memcmp_short(a, b, n) == \E i \in 1..(n - 1) : a[i] # b[i]

\* memcmp(a, b, n) != 0 over the first n bytes of both
memcmp_differs(a, b, n) == \E i \in 1..n : a[i] # b[i]

\* memmem(hay, Len(hay), needle, Len(needle)): index of the first match, 0 if none
memmem(hay, needle) ==
    LET hits == {i \in 1..(Len(hay) - Len(needle) + 1) :
                    SubSeq(hay, i, i + Len(needle) - 1) = needle}
    IN  IF hits = {} THEN 0 ELSE CHOOSE i \in hits : \A j \in hits : i <= j

\* decimal digits of a natural number, as printf("%u") writes them
RECURSIVE Digits(_)
Digits(n) == IF n < 10 THEN <<48 + n>> ELSE Digits(n \div 10) \o <<48 + (n % 10)>>

\* one "name=value\n" record
FormatParam(p) == p.name \o <<61>> \o Digits(p.value) \o <<10>>

\* ------------------------------------------------------------- environment
\* the configuration: n parameters named "A", "B", ...; v is the value of "A"
Config(n, v) == [i \in 1..n |-> [name |-> <<64 + i>>, value |-> IF i = 1 THEN v ELSE i]]

Configs == {Config(n, 1) : n \in 0..MaxParams} \cup {Config(1, 2)}

\* the decompressed bootloader.bin: versions differ in their last byte only
Image(size, v) == [i \in 1..size |-> IF i = size THEN v ELSE 1]

ImageSizes == {20, 32, 64}

NoImage == <<>>

Images == {Image(s, v) : s \in ImageSizes, v \in 1..MaxVersion}

PageSizes == {32, 64, 96}

PageTables == {[i \in 1..n |-> s] : n \in 1..MaxPages, s \in PageSizes}

\* what lies behind the decompressed buffer, read when fw_size is rounded up
TailBytes == {NUL, ERASED}

RECURSIVE SumSeq(_)
SumSeq(s) == IF s = <<>> THEN 0 ELSE Head(s) + SumSeq(Tail(s))

VARIABLES
    pageSizes,              \* the flash page table (sizes; index 0 first)
    flashMem,               \* flash content, byte 1 is at getpageaddr(0)
    romfs,                  \* bootloader.bin as stored, NoImage when missing
    config,                 \* the persistable parameters
    paramsEnabled,          \* HAL_ENABLE_SAVE_PERSISTENT_PARAMS
    pc,                     \* position in flash_bootloader()
    fw,                     \* the fw_size bytes readable at fw (image + overread)
    fw_size,
    uptodate,
    persistent_params,      \* ExpandingString content
    old_persistent_params,
    got_params,             \* result of get_persistent_params()
    loaded_params,          \* result of load_persistent_params()
    image_differs,          \* memcmp(fw, addr, fw_size) != 0
    resident_same,          \* the bytes compared were equal, byte for byte
    space_available,
    erased_size,
    erase_page,
    attempt,                \* loop counter i of the write loop
    unlocked,               \* state set by hal.flash->keep_unlocked()
    result,                 \* returned FlashBootloader value, "NONE" while running
    calls,                  \* calls issued by the current invocation, in order
    applied,                \* what apply_persistent_params() did since the last invocation
    ncalls,                 \* invocations started so far
    after_clean_ok          \* the invocation before the current one was a clean OK

envVars == <<pageSizes, romfs, config, paramsEnabled>>
localVars == <<fw, fw_size, uptodate, persistent_params, old_persistent_params,
               got_params, loaded_params, image_differs, resident_same,
               space_available, erased_size, erase_page, attempt>>
vars == <<pageSizes, flashMem, romfs, config, paramsEnabled, pc, fw, fw_size,
          uptodate, persistent_params, old_persistent_params, got_params,
          loaded_params, image_differs, resident_same, space_available, erased_size,
          erase_page, attempt, unlocked, result, calls, applied, ncalls, after_clean_ok>>

\* ------------------------------------------------------- ExpandingString
\* An ExpandingString is its content and its sticky allocation failure flag;
\* cap is the length the heap lets the buffer grow to.
EmptyString == [buf |-> <<>>, failed |-> FALSE]

\* ExpandingString::append / printf of the bytes b
es_append(str, b, cap) ==
    IF str.failed THEN str
    ELSE IF Len(str.buf) + Len(b) > cap THEN [str EXCEPT !.failed = TRUE]
    ELSE [str EXCEPT !.buf = str.buf \o b]

\* AP_InertialSensor::get_persistent_params: one printf per parameter
RECURSIVE ins_get_persistent_params(_, _, _)
ins_get_persistent_params(str, ps, cap) ==
    IF ps = <<>> THEN str
    ELSE ins_get_persistent_params(es_append(str, FormatParam(Head(ps)), cap), Tail(ps), cap)

\* while (!str.has_failed_allocation() && str.get_length() % 32 != 0) str.append(" ", 1)
RECURSIVE pad_to_alignment(_, _)
pad_to_alignment(str, cap) ==
    IF ~str.failed /\ Len(str.buf) % AlignSize # 0
    THEN pad_to_alignment(es_append(str, <<32>>, cap), cap)
    ELSE str

\* Util::get_persistent_params: [ok |-> return value, str |-> the string built]
get_persistent_params(cfg, cap) ==
    LET s1 == es_append(EmptyString, persistent_header, cap)
        s2 == ins_get_persistent_params(s1, cfg, cap)
    IN  IF s2.failed \/ Len(s2.buf) <= strlen(persistent_header)
        THEN [ok |-> FALSE, str |-> s2.buf]
        ELSE LET s3 == pad_to_alignment(s2, cap)
             IN  [ok |-> ~s3.failed, str |-> s3.buf]

\* ------------------------------------------------------------ flash device
\* hal.flash->getpagesize(page): 0 past the end of the table
getpagesize(ps, page) == IF page + 1 <= Len(ps) THEN ps[page + 1] ELSE 0

\* offset of a page from the base of page 0
PageOffset(ps, page) == SumSeq(SubSeq(ps, 1, page))

\* the n bytes at offset 0 of flash; bytes past the page table read as erased
ReadFlash(mem, n) == [i \in 1..n |-> IF i <= Len(mem) THEN mem[i] ELSE ERASED]

Overlay(mem, off, b) ==
    [i \in 1..Len(mem) |-> IF i > off /\ i <= off + Len(b) THEN b[i - off] ELSE mem[i]]

\* hal.flash->write(address, b, Len(b)) returning ok: the bytes land when the
\* call succeeds and the range lies in the flash described by the page table
flash_write(mem, address, b, ok) ==
    LET off == address - FLASH_BASE
    IN  IF ok /\ off >= 0 /\ off + Len(b) <= Len(mem) THEN Overlay(mem, off, b) ELSE mem

\* hal.flash->erasepage(page) returning ok
flash_erase(mem, ps, page, ok) ==
    IF ok THEN Overlay(mem, PageOffset(ps, page), Fill(getpagesize(ps, page), ERASED))
    ELSE mem

\* Util::load_persistent_params: [ok |-> return value, str |-> the string loaded]
load_persistent_params(mem, ps, cap) ==
    LET size == getpagesize(ps, 0)
        page0 == SubSeq(mem, 1, size)
        s == memmem(page0, persistent_header)
    IN  IF s # 0
        THEN LET str == es_append(EmptyString, SubSeq(page0, s, size), cap)
             IN  [ok |-> ~str.failed, str |-> str.buf]
        ELSE [ok |-> FALSE, str |-> <<>>]

\* ------------------------------------------------- apply_persistent_params
\* strtok_r(s, delim): the maximal runs of bytes other than delim in the C string s
RECURSIVE TokensFrom(_, _, _)
TokensFrom(s, delim, cur) ==
    IF s = <<>> THEN (IF cur = <<>> THEN <<>> ELSE <<cur>>)
    ELSE IF Head(s) = delim
         THEN (IF cur = <<>> THEN <<>> ELSE <<cur>>) \o TokensFrom(Tail(s), delim, <<>>)
         ELSE TokensFrom(Tail(s), delim, Append(cur, Head(s)))

\* mutant: the string is cut at spaces instead of newlines
strtok_at_spaces(s) == TokensFrom(CStr(s), 32, <<>>)

\* for (p = strtok_r(s, "\n", &saveptr); p; p = strtok_r(nullptr, "\n", &saveptr))
strtok_lines(s) == TokensFrom(CStr(s), 10, <<>>)

\* strchr(p, '='): index of the first '=' of the token, 0 when there is none
strchr_eq(p) ==
    LET hits == {i \in 1..Len(p) : p[i] = 61}
    IN  IF hits = {} THEN 0 ELSE CHOOSE i \in hits : \A j \in hits : i <= j

RECURSIVE DigitsValue(_, _)
\* the value of the leading decimal digits of t, acc being the value so far
DigitsValue(t, acc) ==
    IF t # <<>> /\ Head(t) >= 48 /\ Head(t) <= 57
    THEN DigitsValue(Tail(t), 10 * acc + (Head(t) - 48))
    ELSE acc

RECURSIVE SkipSpaces(_)
SkipSpaces(t) == IF t # <<>> /\ Head(t) \in {32, 9} THEN SkipSpaces(Tail(t)) ELSE t

\* atof(t) on the texts the model writes: leading white space, an optional
\* sign, then decimal digits; 0 when no digit follows
atof(t) ==
    LET u == SkipSpaces(t)
    IN  IF u # <<>> /\ Head(u) = 45 THEN 0 - DigitsValue(Tail(u), 0)
        ELSE IF u # <<>> /\ Head(u) = 43 THEN DigitsValue(Tail(u), 0)
        ELSE DigitsValue(u, 0)

\* the AP_Param::set_default_by_name(p, atof(eq+1)) calls of the loop, in order
RECURSIVE set_default_calls(_)
set_default_calls(toks) ==
    IF toks = <<>> THEN <<>>
    ELSE LET p == Head(toks)
             eq == strchr_eq(p)
         IN  (IF eq # 0
              THEN <<[name |-> SubSeq(p, 1, eq - 1),
                      value |-> atof(SubSeq(p, eq + 1, Len(p)))]>>
              ELSE <<>>)
             \o set_default_calls(Tail(toks))

NotApplied == [ran |-> FALSE, found |-> FALSE, loaded |-> FALSE, reqs |-> <<>>]

\* Util::apply_persistent_params under a heap of cap bytes: whether the header
\* was found in page 0, whether the string was loaded, the calls made
apply_persistent_params(mem, ps, cap) ==
    LET lp == load_persistent_params(mem, ps, cap)
    IN  [ran |-> TRUE,
         found |-> memmem(SubSeq(mem, 1, getpagesize(ps, 0)), persistent_header) # 0,
         loaded |-> lp.ok,
         reqs |-> IF lp.ok
                  THEN set_default_calls(strtok_lines(
                           SubSeq(lp.str, strlen(persistent_header) + 1, Len(lp.str))))
                  ELSE <<>>]

\* heap states an invocation may meet: none free, enough for a header and one
\* record, enough for one aligned block, plenty
HeapCaps == {0, Len(persistent_header) + 6, AlignSize + 8, 1000}

\* ------------------------------------------------------------------ call log
Ev(op, a, n, ok) == [op |-> op, a |-> a, n |-> n, ok |-> ok]

EvExpect(ms) == Ev("expect_delay_ms", ms, 0, TRUE)
EvFree == Ev("free", 0, 0, TRUE)
EvGate(b) == Ev("keep_unlocked", IF b THEN 1 ELSE 0, 0, TRUE)

\* ---------------------------------------------------------- initial flash
\* page 0 as a previous flash_bootloader() left it: the image at the base and,
\* when with_blob, the serialized parameters of Config(1, 1) at the end of page 0
FactoryFlash(ps, img, with_blob) ==
    LET erased == Fill(SumSeq(ps), ERASED)
        padded == img \o Fill(AlignUp(Len(img)) - Len(img), NUL)
        m1 == Overlay(erased, 0, SubSeq(padded, 1, IF Len(padded) <= Len(erased)
                                                   THEN Len(padded) ELSE Len(erased)))
        blob == get_persistent_params(Config(1, 1), 1000).str
    IN  IF with_blob /\ Len(blob) <= ps[1]
        THEN Overlay(m1, ps[1] - Len(blob), blob)
        ELSE m1

InitialFlash(ps, img) ==
    {Fill(SumSeq(ps), ERASED)} \cup
    {FactoryFlash(ps, Image(IF img = NoImage THEN AlignSize ELSE Len(img), 1), b) :
        b \in BOOLEAN}

Init ==
    /\ pageSizes \in PageTables
    /\ romfs \in Images \cup {NoImage}
    /\ paramsEnabled \in BOOLEAN
    /\ config \in (IF paramsEnabled THEN Configs ELSE {Config(0, 1)})
    /\ flashMem \in InitialFlash(pageSizes, romfs)
    /\ pc = "idle"
    /\ fw = <<>>
    /\ fw_size = 0
    /\ uptodate = TRUE
    /\ persistent_params = <<>>
    /\ old_persistent_params = <<>>
    /\ got_params = FALSE
    /\ loaded_params = FALSE
    /\ image_differs = FALSE
    /\ resident_same = FALSE
    /\ space_available = 0
    /\ erased_size = 0
    /\ erase_page = 0
    /\ attempt = 0
    /\ unlocked = FALSE
    /\ result = "NONE"
    /\ calls = <<>>
    /\ applied = NotApplied
    /\ ncalls = 0
    /\ after_clean_ok = FALSE

\* ------------------------------------------------------------------ actions
\* const uint32_t addr = hal.flash->getpageaddr(0)
addr == FLASH_BASE

\* mutant: the parameters are put right behind the image
params_ofs_after_image(ps, str) == fw_size

\* const uint32_t ofs = hal.flash->getpagesize(0) - persistent_params.get_length()
params_ofs(ps, str) == getpagesize(ps, 0) - Len(str)

\* the address handed to the parameter write: addr+ofs in uint32_t
params_addr(ps, str) == addr + params_ofs(ps, str)

\* const int32_t space_available = hal.flash->getpagesize(0) - int32_t(fw_size)
SpaceAvailable(ps, size) == getpagesize(ps, 0) - size

\* space_available >= persistent_params.get_length(): get_length() is uint32_t,
\* so the int32_t operand is converted to uint32_t before the comparison
space_fits(space, str) == uint32_ge(space, Len(str))

\* the invocation that just returned gave OK with every flash call succeeding,
\* and it wrote a serialized blob that fits in page 0 behind the image
CleanOK ==
    /\ pc = "done"
    /\ result = "OK"
    /\ got_params
    /\ \A k \in DOMAIN calls : calls[k].ok
    /\ \E k \in DOMAIN calls : calls[k].op = "write_params"
    /\ Len(persistent_params) <= getpagesize(pageSizes, 0) - fw_size

\* lines 202-215: entry, EXPECT_DELAY_MS, AP_ROMFS::find_decompress, rounding
Enter ==
    /\ pc \in {"idle", "done"}
    /\ ncalls < MaxCalls
    /\ ncalls' = ncalls + 1
    /\ after_clean_ok' = CleanOK
    /\ uptodate' = TRUE
    /\ persistent_params' = <<>>
    /\ old_persistent_params' = <<>>
    /\ got_params' = FALSE
    /\ loaded_params' = FALSE
    /\ image_differs' = FALSE
    /\ resident_same' = FALSE
    /\ space_available' = 0
    /\ erased_size' = 0
    /\ erase_page' = 0
    /\ attempt' = 0
    /\ IF romfs = NoImage
       THEN /\ calls' = <<EvExpect(EXPECT_TOTAL_MS), Ev("find_decompress", 0, 0, FALSE)>>
            /\ fw' = <<>>
            /\ fw_size' = 0
            /\ result' = "NOT_AVAILABLE"
            /\ pc' = "done"
       ELSE /\ calls' = <<EvExpect(EXPECT_TOTAL_MS),
                          Ev("find_decompress", 0, Len(romfs), TRUE)>>
            /\ fw_size' = AlignUp(Len(romfs))
            /\ \E t \in TailBytes :
                   fw' = romfs \o Fill(AlignUp(Len(romfs)) - Len(romfs), t)
            /\ result' = "NONE"
            /\ pc' = "decide"
    /\ applied' = NotApplied
    /\ UNCHANGED <<envVars, flashMem, unlocked>>

\* lines 217-246: the up-to-date decision and the NO_CHANGE return
CheckUpToDate ==
    /\ pc = "decide"
    /\ \E cap \in HeapCaps, cap_old \in HeapCaps, t \in TailBytes :
        LET diff == memcmp_differs(fw, ReadFlash(flashMem, fw_size), fw_size)
            space == SpaceAvailable(pageSizes, fw_size)
            gp == IF paramsEnabled THEN get_persistent_params(config, cap)
                  ELSE [ok |-> FALSE, str |-> <<>>]
            called_load == gp.ok /\ space_fits(space, gp.str)
            lp == IF called_load THEN load_persistent_params(flashMem, pageSizes, cap_old)
                  ELSE [ok |-> FALSE, str |-> <<>>]
            changed == called_load /\ (~lp.ok \/ strcmp_differs(gp.str, lp.str))
            utd == ~diff /\ ~changed
        IN  /\ image_differs' = diff
            /\ resident_same' = (fw = ReadFlash(flashMem, fw_size))
            /\ space_available' = space
            /\ persistent_params' = gp.str
            /\ got_params' = gp.ok
            /\ old_persistent_params' = lp.str
            /\ loaded_params' = lp.ok
            /\ uptodate' = utd
            /\ fw' = romfs \o Fill(fw_size - Len(romfs), t)
            /\ IF utd
               THEN /\ calls' = Append(calls, EvFree)
                    /\ result' = "NO_CHANGE"
                    /\ pc' = "done"
               ELSE /\ calls' = calls
                    /\ result' = result
                    /\ pc' = "erase"
    /\ UNCHANGED <<envVars, flashMem, fw_size, erased_size, erase_page, attempt,
                   unlocked, applied, ncalls, after_clean_ok>>

\* mutant: a failed erasepage is not noticed and the loop goes on
ErasePage_ignores_failure ==
    /\ pc = "erase"
    /\ erased_size < fw_size
    /\ LET page_size == getpagesize(pageSizes, erase_page)
       IN  IF page_size = 0
           THEN /\ calls' = Append(calls, EvFree)
                /\ result' = "FAIL"
                /\ pc' = "done"
                /\ UNCHANGED <<flashMem, erased_size, erase_page>>
           ELSE \E ok \in BOOLEAN :
                /\ flashMem' = flash_erase(flashMem, pageSizes, erase_page, ok)
                /\ calls' = calls \o <<EvExpect(ERASE_DELAY_MS),
                                       Ev("erasepage", erase_page, page_size, ok)>>
                /\ erased_size' = erased_size + page_size
                /\ erase_page' = (erase_page + 1) % 256
                /\ UNCHANGED <<result, pc>>
    /\ UNCHANGED <<envVars, fw, fw_size, uptodate, persistent_params,
                   old_persistent_params, got_params, loaded_params, image_differs,
                   resident_same, space_available, attempt, unlocked, applied, ncalls, after_clean_ok>>

\* lines 251-265: one iteration of the erase loop
ErasePage ==
    /\ pc = "erase"
    /\ erased_size < fw_size
    /\ LET page_size == getpagesize(pageSizes, erase_page)
       IN  IF page_size = 0
           THEN /\ calls' = Append(calls, EvFree)
                /\ result' = "FAIL"
                /\ pc' = "done"
                /\ UNCHANGED <<flashMem, erased_size, erase_page>>
           ELSE \E ok \in BOOLEAN :
                /\ flashMem' = flash_erase(flashMem, pageSizes, erase_page, ok)
                /\ IF ok
                   THEN /\ calls' = calls \o <<EvExpect(ERASE_DELAY_MS),
                                               Ev("erasepage", erase_page, page_size, TRUE)>>
                        /\ erased_size' = erased_size + page_size
                        /\ erase_page' = (erase_page + 1) % 256
                        /\ UNCHANGED <<result, pc>>
                   ELSE /\ calls' = calls \o <<EvExpect(ERASE_DELAY_MS),
                                               Ev("erasepage", erase_page, page_size, FALSE),
                                               EvFree>>
                        /\ result' = "FAIL"
                        /\ pc' = "done"
                        /\ UNCHANGED <<erased_size, erase_page>>
    /\ UNCHANGED <<envVars, fw, fw_size, uptodate, persistent_params,
                   old_persistent_params, got_params, loaded_params, image_differs, resident_same,
                   space_available, attempt, unlocked, applied, ncalls, after_clean_ok>>

\* mutant: the erase loop is left as soon as one page is erased
BeginWrite_early ==
    /\ pc = "erase"
    /\ erased_size > 0
    /\ unlocked' = TRUE
    /\ calls' = Append(calls, EvGate(TRUE))
    /\ attempt' = 0
    /\ pc' = "write"
    /\ UNCHANGED <<envVars, flashMem, fw, fw_size, uptodate, persistent_params,
                   old_persistent_params, got_params, loaded_params, image_differs, resident_same,
                   space_available, erased_size, erase_page, result, applied, ncalls, after_clean_ok>>

\* lines 267-269: the erase loop is left, the flash is kept unlocked
BeginWrite ==
    /\ pc = "erase"
    /\ ~(erased_size < fw_size)
    /\ unlocked' = TRUE
    /\ calls' = Append(calls, EvGate(TRUE))
    /\ attempt' = 0
    /\ pc' = "write"
    /\ UNCHANGED <<envVars, flashMem, fw, fw_size, uptodate, persistent_params,
                   old_persistent_params, got_params, loaded_params, image_differs, resident_same,
                   space_available, erased_size, erase_page, result, applied, ncalls, after_clean_ok>>

\* mutant: the loop runs once more
attempts_left_off_by_one(i) == i <= max_attempts

\* for (uint8_t i=0; i<max_attempts; i++): the loop condition
attempts_left(i) == i < max_attempts

\* if (persistent_params.get_length()): the parameters are written after the image
writes_params(enabled, str) == enabled /\ Len(str) # 0

\* mutant: a failed write of the parameters makes the result FAIL
WriteAttempt_params_fatal ==
    /\ pc = "write"
    /\ attempts_left(attempt)
    /\ \E ok \in BOOLEAN, pok \in BOOLEAN :
        IF ~ok
        THEN /\ flashMem' = flash_write(flashMem, addr, fw, FALSE)
             /\ calls' = calls \o <<EvExpect(ERASE_DELAY_MS),
                                    Ev("write_fw", addr, fw_size, FALSE),
                                    Ev("delay", RETRY_DELAY_MS, 0, TRUE)>>
             /\ attempt' = attempt + 1
             /\ UNCHANGED <<unlocked, result, pc>>
        ELSE LET m1 == flash_write(flashMem, addr, fw, TRUE)
                 wp == writes_params(paramsEnabled, persistent_params)
                 pa == params_addr(pageSizes, persistent_params)
             IN  /\ flashMem' = IF wp THEN flash_write(m1, pa, persistent_params, pok)
                                ELSE m1
                 /\ calls' = calls
                        \o <<EvExpect(ERASE_DELAY_MS), Ev("write_fw", addr, fw_size, TRUE)>>
                        \o (IF wp THEN <<Ev("write_params", pa, Len(persistent_params), pok)>>
                            ELSE <<>>)
                        \o <<EvGate(FALSE), EvFree>>
                 /\ unlocked' = FALSE
                 /\ result' = IF wp /\ ~pok THEN "FAIL" ELSE "OK"
                 /\ pc' = "done"
                 /\ attempt' = attempt
    /\ UNCHANGED <<envVars, fw, fw_size, uptodate, persistent_params,
                   old_persistent_params, got_params, loaded_params, image_differs, resident_same,
                   space_available, erased_size, erase_page, applied, ncalls, after_clean_ok>>

\* mutant: a failed write of the image is retried without the delay
WriteAttempt_no_backoff ==
    /\ pc = "write"
    /\ attempts_left(attempt)
    /\ \E ok \in BOOLEAN, pok \in BOOLEAN :
        IF ~ok
        THEN /\ flashMem' = flash_write(flashMem, addr, fw, FALSE)
             /\ calls' = calls \o <<EvExpect(ERASE_DELAY_MS),
                                    Ev("write_fw", addr, fw_size, FALSE)>>
             /\ attempt' = attempt + 1
             /\ UNCHANGED <<unlocked, result, pc>>
        ELSE LET m1 == flash_write(flashMem, addr, fw, TRUE)
                 wp == writes_params(paramsEnabled, persistent_params)
                 pa == params_addr(pageSizes, persistent_params)
             IN  /\ flashMem' = IF wp THEN flash_write(m1, pa, persistent_params, pok)
                                ELSE m1
                 /\ calls' = calls
                        \o <<EvExpect(ERASE_DELAY_MS), Ev("write_fw", addr, fw_size, TRUE)>>
                        \o (IF wp THEN <<Ev("write_params", pa, Len(persistent_params), pok)>>
                            ELSE <<>>)
                        \o <<EvGate(FALSE), EvFree>>
                 /\ unlocked' = FALSE
                 /\ result' = "OK"
                 /\ pc' = "done"
                 /\ attempt' = attempt
    /\ UNCHANGED <<envVars, fw, fw_size, uptodate, persistent_params,
                   old_persistent_params, got_params, loaded_params, image_differs, resident_same,
                   space_available, erased_size, erase_page, applied, ncalls, after_clean_ok>>

\* lines 270-289: one pass of the write loop; a failed write waits and retries,
\* a successful one writes the parameters, locks the flash and returns OK
WriteAttempt ==
    /\ pc = "write"
    /\ attempts_left(attempt)
    /\ \E ok \in BOOLEAN, pok \in BOOLEAN :
        IF ~ok
        THEN /\ flashMem' = flash_write(flashMem, addr, fw, FALSE)
             /\ calls' = calls \o <<EvExpect(ERASE_DELAY_MS),
                                    Ev("write_fw", addr, fw_size, FALSE),
                                    Ev("delay", RETRY_DELAY_MS, 0, TRUE)>>
             /\ attempt' = attempt + 1
             /\ UNCHANGED <<unlocked, result, pc>>
        ELSE LET m1 == flash_write(flashMem, addr, fw, TRUE)
                 wp == writes_params(paramsEnabled, persistent_params)
                 pa == params_addr(pageSizes, persistent_params)
             IN  /\ flashMem' = IF wp THEN flash_write(m1, pa, persistent_params, pok)
                                ELSE m1
                 /\ calls' = calls
                        \o <<EvExpect(ERASE_DELAY_MS), Ev("write_fw", addr, fw_size, TRUE)>>
                        \o (IF wp THEN <<Ev("write_params", pa, Len(persistent_params), pok)>>
                            ELSE <<>>)
                        \o <<EvGate(FALSE), EvFree>>
                 /\ unlocked' = FALSE
                 /\ result' = "OK"
                 /\ pc' = "done"
                 /\ attempt' = attempt
    /\ UNCHANGED <<envVars, fw, fw_size, uptodate, persistent_params,
                   old_persistent_params, got_params, loaded_params, image_differs, resident_same,
                   space_available, erased_size, erase_page, applied, ncalls, after_clean_ok>>

\* mutant: the exit after the last failed attempt forgets AP_ROMFS::free
WriteFailed_no_free ==
    /\ pc = "write"
    /\ ~attempts_left(attempt)
    /\ unlocked' = FALSE
    /\ calls' = calls \o <<EvGate(FALSE)>>
    /\ result' = "FAIL"
    /\ pc' = "done"
    /\ UNCHANGED <<envVars, flashMem, localVars, applied, ncalls, after_clean_ok>>

\* mutant: the exit after the last failed attempt leaves the flash unlocked
WriteFailed_no_lock ==
    /\ pc = "write"
    /\ ~attempts_left(attempt)
    /\ calls' = calls \o <<EvFree>>
    /\ result' = "FAIL"
    /\ pc' = "done"
    /\ UNCHANGED <<envVars, flashMem, localVars, unlocked, applied, ncalls, after_clean_ok>>

\* mutant: after the last failed attempt the function never returns
WriteFailed_hangs ==
    /\ pc = "write"
    /\ ~attempts_left(attempt)
    /\ UNCHANGED vars

\* lines 292-295: every attempt failed
WriteFailed ==
    /\ pc = "write"
    /\ ~attempts_left(attempt)
    /\ unlocked' = FALSE
    /\ calls' = calls \o <<EvGate(FALSE), EvFree>>
    /\ result' = "FAIL"
    /\ pc' = "done"
    /\ UNCHANGED <<envVars, flashMem, fw, fw_size, uptodate, persistent_params,
                   old_persistent_params, got_params, loaded_params, image_differs, resident_same,
                   space_available, erased_size, erase_page, attempt, applied, ncalls, after_clean_ok>>

\* lines 428-453: apply_persistent_params(), called outside flash_bootloader()
ApplyPersistentParams ==
    /\ pc \in {"idle", "done"}
    /\ paramsEnabled
    /\ ~applied.ran
    /\ \E cap \in HeapCaps :
           applied' = apply_persistent_params(flashMem, pageSizes, cap)
    /\ UNCHANGED <<envVars, flashMem, pc, localVars, unlocked, result, calls, ncalls, after_clean_ok>>

Next ==
    \/ Enter
    \/ CheckUpToDate
    \/ ErasePage
    \/ BeginWrite
    \/ WriteAttempt
    \/ WriteFailed
    \/ ApplyPersistentParams

Spec == Init /\ [][Next]_vars

\* the steps of a started invocation: flash_bootloader() runs to completion on
\* its thread, it is never cancelled and never waits on another thread
RunStep ==
    \/ CheckUpToDate
    \/ ErasePage
    \/ BeginWrite
    \/ WriteAttempt
    \/ WriteFailed

FairSpec == Init /\ [][Next]_vars /\ WF_vars(RunStep)

\* ------------------------------------------------- reading the call log
Idx(op) == {k \in DOMAIN calls : calls[k].op = op}
NumCalls(op) == Cardinality(Idx(op))

EraseIdx == Idx("erasepage")
ImageWriteIdx == Idx("write_fw")
ParamsWriteIdx == Idx("write_params")
WriteIdx == ImageWriteIdx \cup ParamsWriteIdx

FailedImageWrites == {k \in ImageWriteIdx : ~calls[k].ok}

RECURSIVE EraseBytes(_)
\* sum of the page sizes of the erasepage calls of a log
EraseBytes(log) ==
    IF log = <<>> THEN 0
    ELSE (IF Head(log).op = "erasepage" THEN Head(log).n ELSE 0) + EraseBytes(Tail(log))

\* the invocation got an image and is past the up-to-date decision
Decided == pc \in {"erase", "write", "done"} /\ result # "NOT_AVAILABLE"

Returned == pc = "done"

C2_Original ==
    (Returned /\ result # "NOT_AVAILABLE" /\ ~resident_same)
    => (EraseBytes(calls) >= fw_size /\ ImageWriteIdx # {})

\* C2 (amended): for a differing image, when no erasepage call fails and the
\* page table covers fw_size, the erase calls' page sizes sum to at least
\* fw_size and at least one image write is attempted; otherwise the
\* invocation returns FAIL without any write call.
C2_DifferingImageIsRewritten ==
    (Returned /\ result # "NOT_AVAILABLE" /\ ~resident_same)
    => IF (\A k \in EraseIdx : calls[k].ok) /\ SumSeq(pageSizes) >= fw_size
       THEN EraseBytes(calls) >= fw_size /\ ImageWriteIdx # {}
       ELSE result = "FAIL" /\ WriteIdx = {}

C2_Witness ==
    /\ Returned
    /\ ~resident_same
    /\ EraseBytes(calls) >= fw_size
    /\ Cardinality(EraseIdx) = 2
    /\ ImageWriteIdx # {}
    /\ result = "FAIL"

\* ------------------------------------------------------------------ C3
\* C3: the image write is attempted at most 10 times; nine failures followed by
\* a success give OK, ten failures give FAIL and no eleventh image write, and a
\* FAIL out of the write phase comes only after ten failed image writes.
C3_RetryBound ==
    /\ Cardinality(ImageWriteIdx) <= 10
    /\ (Returned /\ Cardinality(FailedImageWrites) = 9 /\ Cardinality(ImageWriteIdx) = 10)
        => result = "OK"
    /\ (Returned /\ Cardinality(FailedImageWrites) = 10)
        => (result = "FAIL" /\ Cardinality(ImageWriteIdx) = 10)
    /\ (Returned /\ result = "FAIL" /\ ImageWriteIdx # {})
        => Cardinality(FailedImageWrites) = 10

C3_Witness ==
    /\ Returned
    /\ result = "OK"
    /\ Cardinality(FailedImageWrites) = 9
    /\ Cardinality(ImageWriteIdx) = 10

GateOpenAt(k) ==
    \E j \in Idx("keep_unlocked") :
        /\ j < k
        /\ calls[j].a = 1
        /\ \A i \in Idx("keep_unlocked") : i < k => i <= j

\* C5: an invocation that unlocks the flash locks it again exactly once before
\* it returns, so the gate is locked whenever flash_bootloader() has returned;
\* and every write call, image or parameters, is issued with the gate unlocked.
C5_GateBalanced ==
    /\ Returned => ~unlocked
    /\ Returned =>
        Cardinality({k \in Idx("keep_unlocked") : calls[k].a = 1})
          = Cardinality({k \in Idx("keep_unlocked") : calls[k].a = 0})
    /\ Cardinality({k \in Idx("keep_unlocked") : calls[k].a = 1}) <= 1
    /\ \A k \in WriteIdx : GateOpenAt(k)
    /\ unlocked <=> (pc = "write")

C5_Witness ==
    /\ Returned
    /\ ~unlocked
    /\ result = "OK"
    /\ ParamsWriteIdx # {}
    /\ FailedImageWrites # {}
    /\ \A k \in WriteIdx : GateOpenAt(k)

\* ------------------------------------------------------------------ C6
\* C6 as stated: every erasepage call and every write call, the parameter write
\* included, directly follows an expect_delay_ms notification of its own.
C6_EveryFlashCallNotified ==
    \A k \in EraseIdx \cup WriteIdx :
        k > 1 /\ calls[k - 1].op = "expect_delay_ms"

\* ------------------------------------------------------------------ C7
\* the reference predicate of C7, with the fit test as a signed comparison
C7_ReferenceNeedsUpdate ==
    \/ ~resident_same
    \/ /\ paramsEnabled
       /\ got_params
       /\ Len(persistent_params) <= getpagesize(pageSizes, 0) - fw_size
       /\ (~loaded_params \/ CStr(persistent_params) # CStr(old_persistent_params))

\* C7 as stated: the verdict is needs-update exactly when the reference
\* predicate holds; a blob that does not fit never triggers an update, also
\* when fw_size exceeds the size of page 0.
C7_VerdictIsReference == Decided => (~uptodate <=> C7_ReferenceNeedsUpdate)

\* ------------------------------------------------------------------ C8
\* C8 as stated: the parameter blob is written at addr + fw_size.
C8_Original == \A k \in ParamsWriteIdx : calls[k].a = addr + fw_size

\* C8 (amended): the parameter blob is written at addr + (getpagesize(0) -
\* length) in uint32_t arithmetic, with the whole string as its length: a blob
\* no longer than page 0 ends exactly at the end of page 0, and follows the
\* image directly only when fw_size + length equals the size of page 0.
C8_ParamsAtEndOfPage ==
    \A k \in ParamsWriteIdx :
        /\ calls[k].n = Len(persistent_params)
        /\ calls[k].a = FLASH_BASE + (getpagesize(pageSizes, 0) - calls[k].n)
        /\ (calls[k].a = FLASH_BASE + fw_size)
            <=> (fw_size + calls[k].n = getpagesize(pageSizes, 0))

C8_Witness ==
    /\ Returned
    /\ result = "OK"
    /\ \E k \in ParamsWriteIdx :
        /\ calls[k].ok
        /\ calls[k].a > addr + fw_size
        /\ calls[k].a + calls[k].n = addr + getpagesize(pageSizes, 0)
        /\ SubSeq(flashMem, getpagesize(pageSizes, 0) - calls[k].n + 1,
                  getpagesize(pageSizes, 0)) = persistent_params

\* ------------------------------------------------------------------ C9
\* C9 as stated: the string get_persistent_params leaves, as the write phase
\* sees it, has length 0 or a length that is a multiple of 32 and greater than
\* the header's; no persistable parameter means length 0, never a bare header.
C9_BlobLengthAligned ==
    Decided =>
        \/ Len(persistent_params) = 0
        \/ /\ Len(persistent_params) % AlignSize = 0
           /\ Len(persistent_params) > Len(persistent_header)

\* ------------------------------------------------------------------ C10
\* C10 as stated: when get_persistent_params reports failure the verdict rests
\* on the image comparison alone, the image update proceeds, and no parameter
\* write is issued.
C10_FailedSerializeWritesNothing ==
    (Decided /\ paramsEnabled /\ ~got_params)
    => (/\ uptodate <=> resident_same
        /\ ParamsWriteIdx = {})

\* ------------------------------------------------------------------ C11
\* the page table ends before erased_size can reach fw_size
PageTableExhausted ==
    /\ Decided
    /\ ~uptodate
    /\ SumSeq(pageSizes) < fw_size

\* C11: a failed erasepage call, or a page of size 0 met before erased_size
\* reaches fw_size, makes flash_bootloader() return FAIL at once: the failed
\* erase is the last erasepage call and is directly followed by the release
\* and the return, no write call is issued and keep_unlocked is never called.
C11_StructuralFailureIsFatal ==
    /\ \A k \in EraseIdx :
        ~calls[k].ok =>
            /\ \A j \in EraseIdx : j <= k
            /\ Len(calls) = k + 1
            /\ calls[k + 1] = EvFree
            /\ Returned
            /\ result = "FAIL"
            /\ WriteIdx = {}
            /\ Idx("keep_unlocked") = {}
            /\ ~unlocked
    /\ PageTableExhausted =>
            /\ pc # "write"
            /\ Cardinality(EraseIdx) <= Len(pageSizes)
            /\ WriteIdx = {}
            /\ Idx("keep_unlocked") = {}
            /\ ~unlocked
            /\ Returned => (result = "FAIL" /\ calls[Len(calls)] = EvFree)

C11_Witness ==
    /\ Returned
    /\ result = "FAIL"
    /\ \E k \in EraseIdx : ~calls[k].ok /\ calls[k].a = 1
    /\ WriteIdx = {}
    /\ Idx("keep_unlocked") = {}

\* ------------------------------------------------------------------ C12
Running == pc \in {"decide", "erase", "write"}

\* C12: every started invocation returns, whatever the flash device and the
\* image store do; it returns exactly one of OK, NO_CHANGE, NOT_AVAILABLE and
\* FAIL, no result is set before it returns, and once the erase loop has been
\* entered the result is OK or FAIL.
C12_Terminates ==
    /\ [](/\ Returned => result \in {"OK", "NO_CHANGE", "NOT_AVAILABLE", "FAIL"}
          /\ Running => result = "NONE"
          /\ (Returned /\ Decided /\ ~uptodate) => result \in {"OK", "FAIL"}
          /\ (Returned /\ (EraseIdx # {} \/ WriteIdx # {})) => result \in {"OK", "FAIL"})
    /\ (Running ~> Returned)

C12_Witness ==
    /\ Returned
    /\ result = "FAIL"
    /\ EraseIdx # {}
    /\ Cardinality(FailedImageWrites) = max_attempts
    /\ ncalls = MaxCalls

\* ------------------------------------------------------------------ C13
\* the last invocation serialized the parameters and wrote them into page 0
BlobPersisted ==
    /\ Returned
    /\ result = "OK"
    /\ got_params
    /\ \E k \in ParamsWriteIdx :
        /\ calls[k].ok
        /\ calls[k].a >= FLASH_BASE
        /\ calls[k].n = Len(persistent_params)

\* C13: after flash_bootloader() has serialized the parameters and written the
\* blob into page 0, apply_persistent_params() finds the header and, when it
\* loads the string, calls set_default_by_name once for every parameter that
\* was serialized, in order, with the name and the value serialized; the
\* padding spaces give no call.
C13_RoundTrip ==
    (BlobPersisted /\ applied.ran)
    => (/\ applied.found
        /\ applied.loaded =>
              applied.reqs = [i \in 1..Len(config) |->
                                 [name |-> config[i].name, value |-> config[i].value]])

C13_Witness ==
    /\ BlobPersisted
    /\ applied.ran
    /\ applied.loaded
    /\ Len(applied.reqs) = 3
    /\ applied.reqs[3].value = 3
    /\ Len(persistent_params) > Len(persistent_header) + 12

\* ------------------------------------------------------------------ C14
\* the erase calls of the log before position k
ErasesBefore(k) == {j \in EraseIdx : j < k}

\* C14: the n-th erasepage call is for page n-1 (consecutive pages from page 0,
\* none twice); every write call comes after every erase call; when a write
\* call is issued every erase succeeded and the erased pages cover fw_size.
C14_EraseBeforeWrite ==
    /\ \A k \in EraseIdx : calls[k].a = Cardinality(ErasesBefore(k))
    /\ \A k \in WriteIdx :
        /\ \A j \in EraseIdx : j < k /\ calls[j].ok
        /\ EraseBytes(SubSeq(calls, 1, k - 1)) >= fw_size
        /\ EraseIdx # {}

C14_Witness ==
    /\ Returned
    /\ result = "OK"
    /\ Cardinality(EraseIdx) = 2
    /\ Cardinality(ImageWriteIdx) >= 2
    /\ getpagesize(pageSizes, 0) < fw_size

\* ------------------------------------------------------------------ C15
\* C15: every write of a serialized parameter blob is for at most
\* getpagesize(0) - fw_size bytes, so it lies in page 0 past the image, and
\* after an OK result the first fw_size bytes at the base equal the candidate
\* image.
C15_BlobOutsideImage ==
    got_params =>
        /\ \A k \in ParamsWriteIdx :
            /\ calls[k].n <= getpagesize(pageSizes, 0) - fw_size
            /\ calls[k].a >= addr + fw_size
        /\ (Returned /\ result = "OK") => ReadFlash(flashMem, fw_size) = fw

\* ------------------------------------------------------------------ C16
\* the invocation returned after entering the erase loop
Flashed == Returned /\ Decided /\ ~uptodate

\* C16: an invocation that entered the erase loop returns OK exactly when
\* every erase call succeeded, the erased pages cover fw_size and an image
\* write call succeeded, after at most max_attempts image write calls; the
\* parameters are written at most once, directly after a successful image
\* write, the result is OK whether or not that write succeeds, and a FAIL
\* result has no parameter write.
C16_ResultByConstruction ==
    /\ Flashed =>
        (result = "OK" <=>
            /\ \A j \in EraseIdx : calls[j].ok
            /\ EraseBytes(calls) >= fw_size
            /\ \E k \in ImageWriteIdx : calls[k].ok)
    /\ Cardinality(ImageWriteIdx) <= max_attempts
    /\ Cardinality(ParamsWriteIdx) <= 1
    /\ \A k \in ParamsWriteIdx :
        /\ k > 1
        /\ calls[k - 1].op = "write_fw"
        /\ calls[k - 1].ok
        /\ Returned
        /\ result = "OK"
    /\ (Returned /\ result = "FAIL") => ParamsWriteIdx = {}

C16_Witness ==
    /\ Flashed
    /\ result = "OK"
    /\ FailedImageWrites # {}
    /\ \E k \in ParamsWriteIdx : ~calls[k].ok

\* ------------------------------------------------------------------ C18
BackoffIdx == {k \in Idx("delay") : calls[k].a = RETRY_DELAY_MS}

\* C18: no image write call comes after a successful one; the call directly
\* after a failed image write is a delay of RETRY_DELAY_MS, and the call after
\* that delay is not another delay; every delay of the log directly follows a
\* failed image write, so there are as many delays as failed image writes.
C18_BackoffPerFailure ==
    /\ \A j \in ImageWriteIdx, k \in ImageWriteIdx : (j < k) => ~calls[j].ok
    /\ \A k \in FailedImageWrites :
        /\ k + 1 \in BackoffIdx
        /\ (k + 2) \notin Idx("delay")
    /\ \A d \in Idx("delay") : d \in BackoffIdx /\ (d - 1) \in FailedImageWrites
    /\ Cardinality(Idx("delay")) = Cardinality(FailedImageWrites)

C18_Witness ==
    /\ Returned
    /\ result = "OK"
    /\ Cardinality(FailedImageWrites) = 3
    /\ Cardinality(BackoffIdx) = 3

\* ------------------------------------------------------------------ C17
\* C17: the invocation that directly follows a clean OK (every flash call
\* succeeded, the serialized blob was written and fits behind the image), with
\* the same bootloader.bin and the same parameters, returns NO_CHANGE without
\* an erase or a write call.
C17_Convergence ==
    after_clean_ok =>
        /\ pc \in {"decide", "done"}
        /\ EraseIdx = {}
        /\ WriteIdx = {}
        /\ Returned => result = "NO_CHANGE"

\* what does hold: when the image size is a multiple of AlignSize, so that no
\* byte behind the decompressed buffer is compared, and the string loaded from
\* page 0 could be allocated, the invocation after a clean OK changes nothing
C17_ConvergesWhenComparable ==
    (/\ after_clean_ok
     /\ Len(romfs) % AlignSize = 0
     /\ Decided
     /\ got_params => loaded_params)
    => (/\ uptodate
        /\ Returned
        /\ result = "NO_CHANGE"
        /\ EraseIdx = {}
        /\ WriteIdx = {})

====
